---- MODULE Spec2Model ----
(***************************************************************************)
(* Mood Food Recommender: the user-preference learning model               *)
(* (utils/user_profile.py, UserProfileManager) and its durable profile     *)
(* file.                                                                   *)
(*                                                                         *)
(* Numbers.  Cuisine affinities are kept in hundredths (0.1 is 10, 0.05 is *)
(* 5, 1.0 is 100, -0.5 is -50) and the personalized boost in thousandths   *)
(* (affinity * 0.3 is 3 * hundredths).  Time is counted in whole days;     *)
(* datetime.now() is the variable now.                                     *)
(***************************************************************************)
EXTENDS Integers, Sequences, FiniteSets, TLC

VARIABLES
    session_state,  \* st.session_state: a mapping that holds "user_preferences" or not
    disk,           \* the file system: holds ProfilePath or not
    fs,             \* what the file system does with a write or an unlink
    now,            \* datetime.now(), in days
    calls,          \* feedback given so far: add_feedback calls, feedback button clicks
    recorded,       \* every feedback record appended to the session profile, in order
    last,           \* the operation that ran last, its arguments and its outcome
    page            \* the app page: the inputs and the result of the run that drew it

vars == <<session_state, disk, fs, now, calls, recorded, last, page>>

----------------------------------------------------------------------------
(* Bounds of the model *)

MaxCalls == 2         \* add_feedback calls in a session under way (Spec)
MaxStoreCalls == 1    \* add_feedback calls in a session from its start (SpecStore)
MaxDay == 30          \* the last day the clock reaches

----------------------------------------------------------------------------
(* config.py *)

max_history == 50
cuisine_boost == 10

(* utils/user_profile.py *)

ProfilePath == "cache/user_profiles.json"

DefaultCuisines == {"Desi", "Arabic", "Western"}

DefaultProfile(t) ==
    [ liked_recipes       |-> <<>>,
      disliked_recipes    |-> <<>>,
      cuisine_preferences |-> [c \in DefaultCuisines |-> 0],
      mood_patterns       |-> <<>>,
      feedback_history    |-> <<>>,
      creation_date       |-> t,
      last_updated        |-> t ]

----------------------------------------------------------------------------
(* Python list and number helpers *)

Min(a, b) == IF a <= b THEN a ELSE b
Max(a, b) == IF a >= b THEN a ELSE b

\* x in list
Contains(list, x) == \E i \in 1..Len(list) : list[i] = x

\* list.remove(x): drops the first occurrence of x
RemoveFirst(list, x) ==
    IF ~Contains(list, x) THEN list
    ELSE LET i == CHOOSE k \in 1..Len(list) :
                    /\ list[k] = x
                    /\ \A j \in 1..(k - 1) : list[j] # x
         IN  SubSeq(list, 1, i - 1) \o SubSeq(list, i + 1, Len(list))

\* list[-n:]
LastN(list, n) ==
    IF Len(list) <= n THEN list ELSE SubSeq(list, Len(list) - n + 1, Len(list))

\* list[:n]
FirstN(list, n) == SubSeq(list, 1, Min(n, Len(list)))

NoDuplicates(list) ==
    \A i, j \in 1..Len(list) : list[i] = list[j] => i = j

----------------------------------------------------------------------------
(* add_feedback, step by step *)

FeedbackRecord(recipe_title, rating, mood_tags, recipe_data, t) ==
    [ recipe_title |-> recipe_title,
      rating       |-> rating,
      mood_tags    |-> mood_tags,
      timestamp    |-> t,
      cuisine      |-> recipe_data.cuisine,
      meal_time    |-> recipe_data.meal_time,
      cook_time    |-> recipe_data.cook_time ]

LimitHistoryKeepOldest(history) ==
    IF Len(history) > max_history THEN FirstN(history, max_history) ELSE history

\* if len(history) > max_history: history = history[-max_history:]
LimitHistory(history) ==
    IF Len(history) > max_history THEN LastN(history, max_history) ELSE history

AppendAlways(list, recipe_title) == Append(list, recipe_title)

\* if recipe_title not in liked: liked.append(recipe_title)
AddToList(list, recipe_title) ==
    IF Contains(list, recipe_title) THEN list ELSE Append(list, recipe_title)

KeepInOpposite(list, recipe_title) == list

ClearOpposite(list, recipe_title) == <<>>

\* if recipe_title in opposite: opposite.remove(recipe_title)
RemoveFromList(list, recipe_title) ==
    IF Contains(list, recipe_title) THEN RemoveFirst(list, recipe_title) ELSE list

BoostCuisineUnclamped(cuisine_preferences, cuisine) ==
    IF cuisine \in DOMAIN cuisine_preferences
    THEN [cuisine_preferences EXCEPT ![cuisine] = @ + cuisine_boost]
    ELSE cuisine_preferences

\* if cuisine in prefs: prefs[cuisine] = min(1.0, current + cuisine_boost)
BoostCuisine(cuisine_preferences, cuisine) ==
    IF cuisine \in DOMAIN cuisine_preferences
    THEN [cuisine_preferences EXCEPT ![cuisine] = Min(100, @ + cuisine_boost)]
    ELSE cuisine_preferences

ReduceCuisineFullBoost(cuisine_preferences, cuisine) ==
    IF cuisine \in DOMAIN cuisine_preferences
    THEN [cuisine_preferences EXCEPT ![cuisine] = Max(-50, @ - cuisine_boost)]
    ELSE cuisine_preferences

\* if cuisine in prefs: prefs[cuisine] = max(-0.5, current - cuisine_boost * 0.5)
ReduceCuisine(cuisine_preferences, cuisine) ==
    IF cuisine \in DOMAIN cuisine_preferences
    THEN [cuisine_preferences EXCEPT ![cuisine] = Max(-50, @ - (cuisine_boost \div 2))]
    ELSE cuisine_preferences

LearnTagAlways(mood_patterns, tag, recipe_title) ==
    LET known == IF tag \in DOMAIN mood_patterns THEN mood_patterns[tag] ELSE <<>>
    IN  (tag :> Append(known, recipe_title)) @@ mood_patterns

\* one turn of the loop over mood_tags
LearnTag(mood_patterns, tag, recipe_title) ==
    LET known == IF tag \in DOMAIN mood_patterns THEN mood_patterns[tag] ELSE <<>>
    IN  (tag :> AddToList(known, recipe_title)) @@ mood_patterns

\* for tag in mood_tags: ...
RECURSIVE LearnMoodPatterns(_, _, _)
LearnMoodPatterns(mood_patterns, mood_tags, recipe_title) ==
    IF mood_tags = <<>> THEN mood_patterns
    ELSE LearnMoodPatterns(LearnTag(mood_patterns, Head(mood_tags), recipe_title),
                           Tail(mood_tags), recipe_title)

\* the rating >= 4 branch
PositiveFeedback(prefs, recipe_title, mood_tags, recipe_data) ==
    [prefs EXCEPT
        !.liked_recipes       = AddToList(@, recipe_title),
        !.disliked_recipes    = RemoveFromList(@, recipe_title),
        !.cuisine_preferences = BoostCuisine(@, recipe_data.cuisine),
        !.mood_patterns       = LearnMoodPatterns(@, mood_tags, recipe_title)]

\* the rating <= 2 branch
NegativeFeedback(prefs, recipe_title, recipe_data) ==
    [prefs EXCEPT
        !.disliked_recipes    = AddToList(@, recipe_title),
        !.liked_recipes       = RemoveFromList(@, recipe_title),
        !.cuisine_preferences = ReduceCuisine(@, recipe_data.cuisine)]

IsPositiveFromThree(rating) == rating >= 3

\* if rating >= 4:  # Positive feedback
IsPositive(rating) == rating >= 4

\* elif rating <= 2:  # Negative feedback
IsNegative(rating) == rating <= 2

\* the profile add_feedback leaves in the session, before it is saved
UpdatedProfile(prefs, recipe_title, rating, mood_tags, recipe_data, t) ==
    LET feedback == FeedbackRecord(recipe_title, rating, mood_tags, recipe_data, t)
        logged   == [prefs EXCEPT
                        !.feedback_history = LimitHistory(Append(@, feedback))]
        learned  == IF IsPositive(rating)
                    THEN PositiveFeedback(logged, recipe_title, mood_tags, recipe_data)
                    ELSE IF IsNegative(rating)
                    THEN NegativeFeedback(logged, recipe_title, recipe_data)
                    ELSE logged
    IN  [learned EXCEPT !.last_updated = t]

----------------------------------------------------------------------------
(* The profile file *)

FsModes == {"ok", "readonly", "full"}

\* a file whose content json.load rejects
CorruptFile == [json |-> FALSE, doc |-> <<>>]

\* json.dump(st.session_state.user_preferences, f) and json.load back: lists
\* stay lists, string keys stay keys, numbers stay numbers and None stays
\* null, so the document read back is the dict that was written
JsonFile(prefs) == [json |-> TRUE, doc |-> prefs]

SaveProfileBeforeUpdate(session, dsk, mode) ==
    IF "user_preferences" \in DOMAIN session /\ mode = "ok"
          /\ session.user_preferences.feedback_history # <<>>
    THEN (ProfilePath :> JsonFile([session.user_preferences EXCEPT
              !.feedback_history = SubSeq(@, 1, Len(@) - 1)])) @@ dsk
    ELSE dsk

\* save_profile: the disk it leaves.  open(path, 'w') fails on a read-only
\* directory and leaves the disk as it was; on a full disk the file is created
\* or truncated and json.dump fails part way.
SaveProfile(session, dsk, mode) ==
    IF "user_preferences" \notin DOMAIN session THEN dsk
    ELSE IF mode = "ok"
         THEN (ProfilePath :> JsonFile(session.user_preferences)) @@ dsk
    ELSE IF mode = "readonly" THEN dsk
    ELSE (ProfilePath :> CorruptFile) @@ dsk

SaveOutcome(session, mode) ==
    IF "user_preferences" \notin DOMAIN session THEN "not_saved"
    ELSE IF mode = "ok" THEN "saved" ELSE "save_failed"

\* initialize_profile
InitializeProfileIn(session, t) ==
    IF "user_preferences" \in DOMAIN session THEN session
    ELSE ("user_preferences" :> DefaultProfile(t)) @@ session

\* dict.update(saved_prefs): saved fields replace, the others stay
DictUpdate(prefs, saved) ==
    [k \in (DOMAIN prefs) \cup (DOMAIN saved) |->
        IF k \in DOMAIN saved THEN saved[k] ELSE prefs[k]]

LoadProfileKeepsSession(session, dsk, t) == session

\* load_profile: the session it leaves
LoadProfileSession(session, dsk, t) ==
    IF ProfilePath \notin DOMAIN dsk THEN session
    ELSE IF ~dsk[ProfilePath].json THEN session
    ELSE LET fresh == InitializeProfileIn(session, t)
         IN  [fresh EXCEPT !.user_preferences = DictUpdate(@, dsk[ProfilePath].doc)]

LoadOutcome(dsk) ==
    IF ProfilePath \notin DOMAIN dsk THEN "no_file"
    ELSE IF ~dsk[ProfilePath].json THEN "load_failed" ELSE "loaded"

ResetKeepsFile(dsk, mode) == dsk

\* reset_profile, the file part: unlink when the file exists; an unlink
\* that raises (read-only directory) is swallowed by the bare except
ResetDisk(dsk, mode) ==
    IF ProfilePath \notin DOMAIN dsk THEN dsk
    ELSE IF mode = "readonly" THEN dsk
    ELSE [p \in (DOMAIN dsk) \ {ProfilePath} |-> dsk[p]]

ResetOutcome(dsk, mode) ==
    IF ProfilePath \notin DOMAIN dsk THEN "no_file"
    ELSE IF mode = "readonly" THEN "unlink_failed" ELSE "unlinked"

ResetSessionKeepsLikes(session, t) ==
    IF "user_preferences" \notin DOMAIN session
    THEN InitializeProfileIn(session, t)
    ELSE [session EXCEPT !.user_preferences =
             [DefaultProfile(t) EXCEPT
                 !.liked_recipes = session.user_preferences.liked_recipes]]

\* reset_profile, the session part: del user_preferences, initialize_profile()
ResetSession(session, t) ==
    InitializeProfileIn([k \in (DOMAIN session) \ {"user_preferences"} |-> session[k]], t)

----------------------------------------------------------------------------
(* get_personalized_boost *)

RecentDays == 30

\* A timestamp is the ISO string of a day, written as the number of the
\* day (0 or more).  A profile file can hold two other things in its place:
\* JSON null, and a string that is not an ISO date.
NullTimestamp == -1
MalformedTimestamp == -2

\* datetime.fromisoformat(feedback['timestamp']): what the statement does
ParseTimestamp(feedback) ==
    IF "timestamp" \notin DOMAIN feedback THEN "KeyError"
    ELSE IF feedback.timestamp = NullTimestamp THEN "TypeError"
    ELSE IF feedback.timestamp = MalformedTimestamp THEN "ValueError"
    ELSE "parsed"

\* except (KeyError, ValueError): continue
Caught == {"KeyError", "ValueError"}

\* _get_recent_feedback raises: some entry fails to parse with an exception
\* that the except clause does not name
RecentFeedbackRaises(session) ==
    /\ "user_preferences" \in DOMAIN session
    /\ \E i \in 1..Len(session.user_preferences.feedback_history) :
           ParseTimestamp(session.user_preferences.feedback_history[i])
               \notin Caught \cup {"parsed"}

\* _get_recent_feedback(days): the entries with timestamp > now - days
RecentFeedback(session, t, days) ==
    IF "user_preferences" \notin DOMAIN session THEN <<>>
    ELSE SelectSeq(session.user_preferences.feedback_history,
                   LAMBDA f : /\ ParseTimestamp(f) = "parsed"
                              /\ f.timestamp > t - days)

ClampBoostNot(boost) == boost

\* max(-1.0, min(1.0, boost))
ClampBoost(boost) == Max(-1000, Min(1000, boost))

PersonalizedBoost(session, recipe_row, t) ==
    IF "user_preferences" \notin DOMAIN session THEN 0
    ELSE LET prefs   == session.user_preferences
             cuisine == recipe_row.cuisine
             recent  == RecentFeedback(session, t, RecentDays)
             likes   == { i \in 1..Len(recent) :
                            /\ recent[i].rating >= 4
                            /\ recent[i].cuisine = cuisine
                            /\ recent[i].meal_time = recipe_row.meal_time }
         IN  ClampBoost(
                 (IF cuisine \in DOMAIN prefs.cuisine_preferences
                  THEN 3 * prefs.cuisine_preferences[cuisine] ELSE 0)
               + (IF Contains(prefs.liked_recipes, recipe_row.title) THEN 500 ELSE 0)
               - (IF Contains(prefs.disliked_recipes, recipe_row.title) THEN 1000 ELSE 0)
               + 100 * Cardinality(likes))

----------------------------------------------------------------------------
(* Inputs *)

Recipes ==
    { [title |-> "Chicken Karahi", cuisine |-> "Desi",    meal_time |-> "Dinner",    cook_time |-> 30],
      [title |-> "Daal Chawal",    cuisine |-> "Desi",    meal_time |-> "Dinner",    cook_time |-> 45],
      [title |-> "Fruit Salad",    cuisine |-> "Unknown", meal_time |-> "Breakfast", cook_time |-> 10] }

\* the two thresholds of add_feedback and the neutral rating between them
Ratings == {2, 3, 4}

TagLists == { <<"comfort">>, <<"stress", "comfort", "stress">> }

NoRecipe == [title |-> "", cuisine |-> "", meal_time |-> "", cook_time |-> 0]

Idle == [op |-> "none", recipe |-> NoRecipe, rating |-> 0, tags |-> <<>>,
         outcome |-> "", value |-> 0]

\* no page drawn: the profile manager is used on its own
NoPage == [outcome |-> "none"]

Karahi == CHOOSE r \in Recipes : r.title = "Chicken Karahi"
Salad  == CHOOSE r \in Recipes : r.title = "Fruit Salad"
Daal   == CHOOSE r \in Recipes : r.title = "Daal Chawal"

----------------------------------------------------------------------------
(* Sessions already under way: the profile that earlier feedback built *)

WarmupRatings == 10
WarmupHistory == 49

Event(recipe, rating, tags) == [recipe |-> recipe, rating |-> rating, tags |-> tags]

Warmups ==
    { <<>>,
      [i \in 1..WarmupRatings |-> Event(Karahi, 4, <<"comfort">>)],
      [i \in 1..WarmupRatings |-> Event(Karahi, 2, <<"comfort">>)],
      [i \in 1..WarmupHistory |->
          Event(IF i % 3 = 1 THEN Karahi ELSE IF i % 3 = 2 THEN Daal ELSE Salad,
                3, <<"comfort">>)] }

\* add_feedback called once per event, in order, on the profile prefs
\* (the list is split in two, and the first half is evaluated before the
\* second is entered, so that the evaluation stays shallow)
RECURSIVE ReplayFrom(_, _, _)
ReplayFrom(prefs, events, t) ==
    IF events = <<>> THEN prefs
    ELSE IF Len(events) = 1
    THEN UpdatedProfile(prefs, events[1].recipe.title, events[1].rating,
                        events[1].tags, events[1].recipe, t)
    ELSE LET half  == Len(events) \div 2
             first == ReplayFrom(prefs, SubSeq(events, 1, half), t)
         IN  IF first.last_updated = t
             THEN ReplayFrom(first, SubSeq(events, half + 1, Len(events)), t)
             ELSE first

\* the session profile after initialize_profile at t and the events
Replay(events, t) == ReplayFrom(DefaultProfile(t), events, t)

Records(events, t) ==
    [i \in 1..Len(events) |->
        FeedbackRecord(events[i].recipe.title, events[i].rating, events[i].tags,
                       events[i].recipe, t)]

----------------------------------------------------------------------------
(* Files found on disk when a session starts *)

TamperedProfile ==
    [DefaultProfile(0) EXCEPT
        !.cuisine_preferences = [c \in DefaultCuisines |->
            IF c = "Desi" THEN 150 ELSE IF c = "Arabic" THEN -150 ELSE 0]]

StoredFiles ==
    { CorruptFile,
      JsonFile(Replay([i \in 1..WarmupRatings |-> Event(Karahi, 4, <<"comfort">>)], 0)),
      JsonFile(TamperedProfile),
      JsonFile([liked_recipes |-> <<"Chicken Karahi">>]) }

----------------------------------------------------------------------------
(* The state machine *)

Init ==
    \E w \in Warmups :
        /\ session_state = [user_preferences |-> Replay(w, 0)]
        /\ disk = IF w = <<>> THEN <<>> ELSE (ProfilePath :> JsonFile(Replay(w, 0)))
        /\ fs = "ok"
        /\ now = 0
        /\ calls = 0
        /\ recorded = Records(w, 0)
        /\ last = Idle
        /\ page = NoPage

InitStore ==
    /\ session_state = <<>>
    /\ disk \in {<<>>} \cup { (ProfilePath :> f) : f \in StoredFiles }
    /\ fs = "ok"
    /\ now = 0
    /\ calls = 0
    /\ recorded = <<>>
    /\ last = Idle
    /\ page = NoPage

HasProfile == "user_preferences" \in DOMAIN session_state

\* add_feedback(recipe_title, rating, mood_tags, recipe_data), while fewer
\* than limit calls were made
AddFeedbackWithin(limit) ==
    \E recipe \in Recipes, rating \in Ratings, tags \in TagLists :
        /\ calls < limit
        /\ HasProfile
        /\ LET updated == [session_state EXCEPT !.user_preferences =
                              UpdatedProfile(@, recipe.title, rating, tags, recipe, now)]
           IN  /\ session_state' = updated
               /\ disk' = SaveProfile(updated, disk, fs)
               /\ last' = [op |-> "add_feedback", recipe |-> recipe, rating |-> rating,
                           tags |-> tags, outcome |-> SaveOutcome(updated, fs),
                           value |-> 0]
        /\ recorded' = Append(recorded,
                              FeedbackRecord(recipe.title, rating, tags, recipe, now))
        /\ calls' = calls + 1
        /\ UNCHANGED <<fs, now, page>>

\* add_feedback without a profile in the session: the first statement,
\* st.session_state.user_preferences, raises AttributeError
AddFeedbackNoProfile ==
    \E recipe \in Recipes, rating \in Ratings, tags \in TagLists :
        /\ ~HasProfile
        /\ last' = [op |-> "add_feedback", recipe |-> recipe, rating |-> rating,
                    tags |-> tags, outcome |-> "raised", value |-> 0]
        /\ UNCHANGED <<session_state, disk, fs, now, calls, recorded, page>>

\* get_personalized_boost(recipe_row)
GetPersonalizedBoost ==
    \E recipe \in Recipes :
        /\ last' = IF RecentFeedbackRaises(session_state)
                   THEN [op |-> "get_personalized_boost", recipe |-> recipe,
                         rating |-> 0, tags |-> <<>>, outcome |-> "raised",
                         value |-> 0]
                   ELSE [op |-> "get_personalized_boost", recipe |-> recipe,
                         rating |-> 0, tags |-> <<>>, outcome |-> "returned",
                         value |-> PersonalizedBoost(session_state, recipe, now)]
        /\ UNCHANGED <<session_state, disk, fs, now, calls, recorded, page>>

SummaryDays == 7

\* get_profile_summary(); the value kept is its recent_activity
GetProfileSummary ==
    /\ last' = IF ~HasProfile
               THEN [Idle EXCEPT !.op = "get_profile_summary", !.outcome = "no_profile"]
               ELSE IF RecentFeedbackRaises(session_state)
               THEN [Idle EXCEPT !.op = "get_profile_summary", !.outcome = "raised"]
               ELSE [Idle EXCEPT !.op = "get_profile_summary", !.outcome = "returned",
                                 !.value = Len(RecentFeedback(session_state, now,
                                                              SummaryDays))]
    /\ UNCHANGED <<session_state, disk, fs, now, calls, recorded, page>>

\* initialize_profile()
InitializeProfile ==
    /\ session_state' = InitializeProfileIn(session_state, now)
    /\ recorded' = IF HasProfile THEN recorded ELSE <<>>
    /\ last' = [Idle EXCEPT !.op = "initialize_profile",
                            !.outcome = IF HasProfile THEN "kept" ELSE "created"]
    /\ UNCHANGED <<disk, fs, now, calls, page>>

\* load_profile()
LoadProfile ==
    /\ session_state' = LoadProfileSession(session_state, disk, now)
    /\ recorded' = IF LoadOutcome(disk) = "loaded"
                       /\ "feedback_history" \in DOMAIN disk[ProfilePath].doc
                   THEN disk[ProfilePath].doc.feedback_history
                   ELSE IF LoadOutcome(disk) = "loaded" /\ ~HasProfile THEN <<>>
                   ELSE recorded
    /\ last' = [Idle EXCEPT !.op = "load_profile", !.outcome = LoadOutcome(disk)]
    /\ UNCHANGED <<disk, fs, now, calls, page>>

\* reset_profile()
ResetProfile ==
    /\ session_state' = ResetSession(session_state, now)
    /\ disk' = ResetDisk(disk, fs)
    /\ recorded' = <<>>
    /\ last' = [Idle EXCEPT !.op = "reset_profile", !.outcome = ResetOutcome(disk, fs)]
    /\ UNCHANGED <<fs, now, calls, page>>

\* days pass between two operations
Tick ==
    /\ now + RecentDays <= MaxDay
    /\ now' = now + RecentDays
    /\ last' = Idle
    /\ UNCHANGED <<session_state, disk, fs, calls, recorded, page>>

\* the directory becomes read-only, the disk fills up, or either is repaired
SetFs ==
    \E mode \in FsModes \ {fs} :
        /\ fs' = mode
        /\ last' = Idle
        /\ UNCHANGED <<session_state, disk, now, calls, recorded, page>>

AddFeedback == AddFeedbackWithin(MaxCalls)

AddFeedbackStore == AddFeedbackWithin(MaxStoreCalls)

\* a session on a profile in the session state, with a working disk
Next == AddFeedback \/ GetPersonalizedBoost \/ Tick

Spec == Init /\ [][Next]_vars

\* a session from its start: the profile file, load, reset and disk failures
NextStore ==
    \/ InitializeProfile
    \/ LoadProfile
    \/ AddFeedbackStore
    \/ AddFeedbackNoProfile
    \/ ResetProfile
    \/ GetPersonalizedBoost
    \/ Tick
    \/ SetFs

SpecStore == InitStore /\ [][NextStore]_vars

----------------------------------------------------------------------------
(* A session that loads a profile file written elsewhere: the timestamps of *)
(* its feedback entries can be missing, null or malformed.                  *)

MaxStored == 2        \* feedback entries of such a file

WithoutTimestamp(feedback) ==
    [k \in (DOMAIN feedback) \ {"timestamp"} |-> feedback[k]]

StoredEntries ==
    LET liked == FeedbackRecord("Chicken Karahi", 4, <<"comfort">>, Karahi, 0)
    IN  { liked,
          FeedbackRecord("Daal Chawal", 2, <<"comfort">>, Daal, 0),
          WithoutTimestamp(liked),
          [liked EXCEPT !.timestamp = NullTimestamp],
          [liked EXCEPT !.timestamp = MalformedTimestamp] }

StoredHistories ==
    UNION { [1..n -> StoredEntries] : n \in 0..MaxStored }

InitLoaded ==
    /\ session_state = <<>>
    /\ \E history \in StoredHistories :
           disk = (ProfilePath :> JsonFile([DefaultProfile(0) EXCEPT
                                               !.feedback_history = history]))
    /\ fs = "ok"
    /\ now = 0
    /\ calls = 0
    /\ recorded = <<>>
    /\ last = Idle
    /\ page = NoPage

NextLoaded == LoadProfile \/ GetPersonalizedBoost \/ GetProfileSummary \/ Tick

SpecLoaded == InitLoaded /\ [][NextLoaded]_vars

----------------------------------------------------------------------------
(* utils/mood_analyzer.py.  A text is the sequence of its characters; the   *)
(* sentiment TextBlob computes for it is an input, in hundredths.           *)

\* self.emotion_keywords, in the order of the dict
Categories ==
    << "stress", "comfort", "energy", "calm", "social", "indulgent",
       "healthy", "quick", "cozy" >>

emotion_keywords ==
       "stress" :> {
        <<"s", "t", "r", "e", "s", "s", "e", "d">>,
        <<"o", "v", "e", "r", "w", "h", "e", "l", "m", "e", "d">>,
        <<"a", "n", "x", "i", "o", "u", "s">>,
        <<"t", "e", "n", "s", "e">>,
        <<"p", "r", "e", "s", "s", "u", "r", "e">>,
        <<"f", "r", "a", "z", "z", "l", "e", "d">>,
        <<"h", "e", "c", "t", "i", "c">> }
    @@ "comfort" :> {
        <<"s", "a", "d">>,
        <<"l", "o", "n", "e", "l", "y">>,
        <<"h", "o", "m", "e", "s", "i", "c", "k">>,
        <<"t", "i", "r", "e", "d">>,
        <<"e", "x", "h", "a", "u", "s", "t", "e", "d">>,
        <<"d", "o", "w", "n">>,
        <<"b", "l", "u", "e">>,
        <<"m", "e", "l", "a", "n", "c", "h", "o", "l", "y">> }
    @@ "energy" :> {
        <<"e", "n", "e", "r", "g", "e", "t", "i", "c">>,
        <<"e", "x", "c", "i", "t", "e", "d">>,
        <<"h", "a", "p", "p", "y">>,
        <<"m", "o", "t", "i", "v", "a", "t", "e", "d">>,
        <<"p", "u", "m", "p", "e", "d">>,
        <<"e", "n", "t", "h", "u", "s", "i", "a", "s", "t", "i", "c">>,
        <<"v", "i", "b", "r", "a", "n", "t">> }
    @@ "calm" :> {
        <<"p", "e", "a", "c", "e", "f", "u", "l">>,
        <<"r", "e", "l", "a", "x", "e", "d">>,
        <<"z", "e", "n">>,
        <<"m", "e", "d", "i", "t", "a", "t", "i", "v", "e">>,
        <<"s", "e", "r", "e", "n", "e">>,
        <<"t", "r", "a", "n", "q", "u", "i", "l">>,
        <<"c", "h", "i", "l", "l">> }
    @@ "social" :> {
        <<"c", "e", "l", "e", "b", "r", "a", "t", "o", "r", "y">>,
        <<"p", "a", "r", "t", "y">>,
        <<"f", "r", "i", "e", "n", "d", "s">>,
        <<"f", "a", "m", "i", "l", "y">>,
        <<"g", "a", "t", "h", "e", "r", "i", "n", "g">>,
        <<"f", "e", "s", "t", "i", "v", "e">> }
    @@ "indulgent" :> {
        <<"c", "r", "a", "v", "i", "n", "g">>,
        <<"t", "r", "e", "a", "t">>,
        <<"i", "n", "d", "u", "l", "g", "e", "n", "t">>,
        <<"g", "u", "i", "l", "t", "y", " ", "p", "l", "e", "a", "s", "u", "r", "e">>,
        <<"c", "o", "m", "f", "o", "r", "t", " ", "f", "o", "o", "d">> }
    @@ "healthy" :> {
        <<"f", "r", "e", "s", "h">>,
        <<"l", "i", "g", "h", "t">>,
        <<"c", "l", "e", "a", "n">>,
        <<"d", "e", "t", "o", "x">>,
        <<"h", "e", "a", "l", "t", "h", "y">>,
        <<"n", "u", "t", "r", "i", "t", "i", "o", "u", "s">> }
    @@ "quick" :> {
        <<"r", "u", "s", "h", "e", "d">>,
        <<"h", "u", "r", "r", "y">>,
        <<"q", "u", "i", "c", "k">>,
        <<"f", "a", "s", "t">>,
        <<"b", "u", "s", "y">>,
        <<"n", "o", " ", "t", "i", "m", "e">> }
    @@ "cozy" :> {
        <<"c", "o", "z", "y">>,
        <<"w", "a", "r", "m">>,
        <<"c", "o", "m", "f", "o", "r", "t", "i", "n", "g">>,
        <<"s", "n", "u", "g", "g", "l", "e", "d">>,
        <<"h", "o", "m", "e", "y">>,
        <<"i", "n", "t", "i", "m", "a", "t", "e">> }

\* str.lower()
LowerCase ==
       "A" :> "a" @@ "B" :> "b" @@ "C" :> "c" @@ "D" :> "d" @@ "E" :> "e" @@ "F" :> "f"
    @@ "G" :> "g" @@ "H" :> "h" @@ "I" :> "i" @@ "J" :> "j" @@ "K" :> "k" @@ "L" :> "l"
    @@ "M" :> "m" @@ "N" :> "n" @@ "O" :> "o" @@ "P" :> "p" @@ "Q" :> "q" @@ "R" :> "r"
    @@ "S" :> "s" @@ "T" :> "t" @@ "U" :> "u" @@ "V" :> "v" @@ "W" :> "w" @@ "X" :> "x"
    @@ "Y" :> "y" @@ "Z" :> "z"

Lower(text) ==
    [i \in 1..Len(text) |->
        IF text[i] \in DOMAIN LowerCase THEN LowerCase[text[i]] ELSE text[i]]

\* keyword in mood_text_lower
IsSubstring(keyword, text) ==
    \E i \in 1..(Len(text) - Len(keyword) + 1) :
        SubSeq(text, i, i + Len(keyword) - 1) = keyword

\* the tag the sentiment adds, if any
SentimentTag(sentiment) ==
    IF sentiment < -40 THEN <<"negative">>
    ELSE IF sentiment > 40 THEN <<"positive">>
    ELSE IF -20 <= sentiment /\ sentiment <= 20 THEN <<"neutral">>
    ELSE <<>>

\* the duplicates removed, the first occurrence kept
RECURSIVE UniqueTags(_, _)
UniqueTags(tags, seen) ==
    IF tags = <<>> THEN <<>>
    ELSE IF Head(tags) \in seen THEN UniqueTags(Tail(tags), seen)
    ELSE <<Head(tags)>> \o UniqueTags(Tail(tags), seen \cup {Head(tags)})

TruncateNot(tags) == tags

\* unique_tags[:5]
Truncate(tags) == FirstN(tags, 5)

DetectedCategories(text) ==
    SelectSeq(Categories,
              LAMBDA c : \E keyword \in emotion_keywords[c] :
                             IsSubstring(keyword, Lower(text)))

\* extract_mood_tags(mood_text), for the sentiment TextBlob gives the text
ExtractMoodTags(mood_text, sentiment) ==
    IF mood_text = <<>> THEN [tags |-> <<>>, sentiment |-> 0]
    ELSE [tags |-> Truncate(UniqueTags(DetectedCategories(mood_text)
                                         \o SentimentTag(sentiment), {})),
          sentiment |-> sentiment]

----------------------------------------------------------------------------
(* utils/filters.py *)

DiversityLimit == 3

\* the loop of apply_diversity_filter over the rows left to visit
RECURSIVE DiversityWalk(_, _, _)
DiversityWalk(rest, diverse_recs, msc) ==
    IF rest = <<>> THEN diverse_recs
    ELSE LET recipe   == Head(rest)
             count    == Cardinality({ i \in 1..Len(diverse_recs) :
                                         diverse_recs[i].cuisine = recipe.cuisine })
             admitted == IF count < msc THEN Append(diverse_recs, recipe)
                         ELSE diverse_recs
         IN  IF Len(admitted) >= DiversityLimit THEN admitted
             ELSE DiversityWalk(Tail(rest), admitted, msc)

ApplyDiversityNoCap(recommendations, msc) == FirstN(recommendations, DiversityLimit)

ApplyDiversityAlwaysWalk(recommendations, msc) ==
    DiversityWalk(recommendations, <<>>, msc)

\* apply_diversity_filter(recommendations, max_same_cuisine)
ApplyDiversityFilter(recommendations, msc) ==
    IF Len(recommendations) <= msc THEN recommendations
    ELSE DiversityWalk(recommendations, <<>>, msc)

----------------------------------------------------------------------------
(* app.py: the page.  Similarities are in hundredths, like the affinities;  *)
(* the cosine similarity of the embeddings is an input.                     *)

TopCandidates == 6
max_same_cuisine == 2

\* load_data(): the recipes of data/recipes.csv
Catalog ==
    Recipes \cup
    { [title |-> "Chicken Biryani", cuisine |-> "Desi",    meal_time |-> "Lunch",  cook_time |-> 60],
      [title |-> "Beef Nihari",     cuisine |-> "Desi",    meal_time |-> "Dinner", cook_time |-> 60],
      [title |-> "Haleem",          cuisine |-> "Desi",    meal_time |-> "Dinner", cook_time |-> 60],
      [title |-> "Chapli Kebab",    cuisine |-> "Desi",    meal_time |-> "Lunch",  cook_time |-> 25],
      [title |-> "Grilled Cheese",  cuisine |-> "Western", meal_time |-> "Lunch",  cook_time |-> 10] }

RecipeRow(title) == CHOOSE r \in Catalog : r.title = title

CuisineChoices == {"All", "Desi", "Arabic", "Western"}

\* initialize_user_profile()
AppDefaultProfile ==
    [liked_recipes       |-> <<>>,
     disliked_recipes    |-> <<>>,
     cuisine_preferences |-> [c \in DefaultCuisines |-> 0],
     mood_patterns       |-> <<>>]

\* the cuisine filter
CuisineFilter(df, cuisine) ==
    IF cuisine = "All" THEN df ELSE { r \in df : r.cuisine = cuisine }

\* mood.strip() == ""
IsBlank(mood) == \A i \in 1..Len(mood) : mood[i] = " "

\* filtered_df["similarity"] = similarities
WithSimilarity(rows, sims) ==
    { r @@ ("similarity" :> sims[r.title]) : r \in rows }

Columns(rows) == UNION { DOMAIN r : r \in rows }

\* the score column the page sorts by, added when it is final_score
HasBoost(rows, enable_learning) ==
    enable_learning /\ "cuisine_boost" \in Columns(rows)

SortColumn(rows, enable_learning) ==
    IF HasBoost(rows, enable_learning) THEN "final_score" ELSE "similarity"

WithFinalScore(rows, enable_learning) ==
    IF HasBoost(rows, enable_learning)
    THEN { r @@ ("final_score" :> r.similarity + r.cuisine_boost) : r \in rows }
    ELSE rows

\* sort_values(by=column, ascending=False): the orders the default sort,
\* which is not stable, can leave the rows in
RECURSIVE SortValues(_, _)
SortValues(rows, column) ==
    IF rows = {} THEN { <<>> }
    ELSE LET top == { r \in rows : \A q \in rows : q[column] <= r[column] }
         IN  UNION { { <<r>> \o rest : rest \in SortValues(rows \ {r}, column) } :
                     r \in top }

TopMatchesAll(sorted) == sorted

\* .head(6)
TopMatches(sorted) == FirstN(sorted, TopCandidates)

Titles(rows) == [i \in 1..Len(rows) |-> rows[i].title]

\* one turn of the loop over last_mood_tags in the Loved handler
AppLearnTag(mood_patterns, tag, recipe) ==
    LET known == IF tag \in DOMAIN mood_patterns THEN mood_patterns[tag] ELSE <<>>
    IN  (tag :> Append(known, recipe)) @@ mood_patterns

RECURSIVE AppLearnMoodPatterns(_, _, _)
AppLearnMoodPatterns(mood_patterns, mood_tags, recipe) ==
    IF mood_tags = <<>> THEN mood_patterns
    ELSE AppLearnMoodPatterns(AppLearnTag(mood_patterns, Head(mood_tags), recipe),
                              Tail(mood_tags), recipe)

----------------------------------------------------------------------------
(* Inputs of the page *)

MaxClicks == 2        \* feedback button clicks in a session of the app

Happy == <<"H", "a", "p", "p", "y">>

\* what the user typed in the text area, and the polarity TextBlob gives it
AppMoods ==
    { [text |-> <<>>,    sentiment |-> 0],
      [text |-> <<" ">>, sentiment |-> 0],
      [text |-> Happy,   sentiment |-> 50] }

\* cosine similarities of a mood and the recipes
SimTables ==
    { \* the six best are Desi
      ("Chicken Karahi" :> 90 @@ "Daal Chawal" :> 85 @@ "Chicken Biryani" :> 80
         @@ "Beef Nihari" :> 75 @@ "Haleem" :> 70 @@ "Chapli Kebab" :> 65
         @@ "Grilled Cheese" :> 60 @@ "Fruit Salad" :> 50),
      \* three cuisines among the best, two recipes equally similar
      ("Chicken Karahi" :> 80 @@ "Daal Chawal" :> 78 @@ "Chicken Biryani" :> 76
         @@ "Grilled Cheese" :> 75 @@ "Fruit Salad" :> 75 @@ "Beef Nihari" :> 50
         @@ "Haleem" :> 40 @@ "Chapli Kebab" :> 30) }

\* the page before the Recommend button was pressed
StartPage ==
    [outcome |-> "start", error |-> "", enable_learning |-> TRUE,
     sorted |-> <<>>, shown |-> <<>>]

----------------------------------------------------------------------------
(* The app *)

InitApp ==
    /\ session_state = [user_preferences |-> AppDefaultProfile]
    /\ disk = <<>>
    /\ fs = "ok"
    /\ now = 0
    /\ calls = 0
    /\ recorded = <<>>
    /\ last = Idle
    /\ page = StartPage

\* the Recommend button
Recommend ==
    \E typed \in AppMoods, cuisine \in CuisineChoices,
       enable_learning \in BOOLEAN, use_enhanced_embeddings \in BOOLEAN,
       sims \in SimTables :
        LET mood        == typed.text
            filtered_df == CuisineFilter(Catalog, cuisine)
            mood_tags   == ExtractMoodTags(mood, typed.sentiment).tags
            scored      == WithSimilarity(filtered_df, sims)
            drawn       == [StartPage EXCEPT !.enable_learning = enable_learning]
        IN  /\ IF IsBlank(mood)
               THEN \* st.warning("Please describe your mood first.")
                    /\ page' = [drawn EXCEPT !.outcome = "warning"]
                    /\ UNCHANGED session_state
               ELSE IF filtered_df = {}
               THEN \* recipe_embeddings[0] of an empty list (line 131), or
                    \* cosine_similarity given no recipe embedding (line 140)
                    /\ page' = [drawn EXCEPT
                                   !.outcome = "raised",
                                   !.error = IF use_enhanced_embeddings
                                             THEN "IndexError" ELSE "ValueError"]
                    /\ UNCHANGED session_state
               ELSE \E sorted \in SortValues(WithFinalScore(scored, enable_learning),
                                             SortColumn(scored, enable_learning)) :
                        LET top_matches == ApplyDiversityFilter(TopMatches(sorted),
                                                                max_same_cuisine)
                        IN  IF top_matches = <<>>
                            THEN /\ page' = [drawn EXCEPT !.outcome = "no_results",
                                                          !.sorted = sorted]
                                 /\ UNCHANGED session_state
                            ELSE /\ page' = [drawn EXCEPT !.outcome = "shown",
                                                          !.sorted = sorted,
                                                          !.shown = top_matches]
                                 /\ session_state' =
                                       ("last_recommendations" :> Titles(top_matches))
                                    @@ ("last_mood_tags" :> mood_tags)
                                    @@ session_state
            /\ UNCHANGED <<disk, fs, now, calls, recorded, last>>

\* the page a feedback button leaves
FeedbackPage(outcome, error) ==
    [StartPage EXCEPT !.outcome = outcome, !.error = error]

\* a Loved button of the feedback section
LovedClick ==
    \E i \in 1..DiversityLimit :
        /\ calls < MaxClicks
        /\ "last_recommendations" \in DOMAIN session_state
        /\ i <= Len(session_state.last_recommendations)
        /\ LET recipe == session_state.last_recommendations[i]
               prefs  == session_state.user_preferences
               liked  == [prefs EXCEPT !.liked_recipes = Append(@, recipe)]
               recipe_row == RecipeRow(recipe)
           IN  IF Contains(prefs.liked_recipes, recipe)
               THEN /\ page' = FeedbackPage("feedback", "")
                    /\ UNCHANGED session_state
               ELSE IF recipe_row.cuisine \notin DOMAIN prefs.cuisine_preferences
               THEN \* prefs['cuisine_preferences'][cuisine] += 0.1 raises
                    \* after the title was appended
                    /\ page' = FeedbackPage("raised", "KeyError")
                    /\ session_state' = [session_state EXCEPT !.user_preferences = liked]
               ELSE /\ page' = FeedbackPage("feedback", "")
                    /\ session_state' = [session_state EXCEPT !.user_preferences =
                          [liked EXCEPT
                              !.cuisine_preferences[recipe_row.cuisine] = @ + 10,
                              !.mood_patterns = AppLearnMoodPatterns(
                                  @, session_state.last_mood_tags, recipe)]]
        /\ calls' = calls + 1
        /\ UNCHANGED <<disk, fs, now, recorded, last>>

\* a Didn't like button of the feedback section
DislikeClick ==
    \E i \in 1..DiversityLimit :
        /\ calls < MaxClicks
        /\ "last_recommendations" \in DOMAIN session_state
        /\ i <= Len(session_state.last_recommendations)
        /\ LET recipe == session_state.last_recommendations[i]
               prefs  == session_state.user_preferences
           IN  session_state' = [session_state EXCEPT !.user_preferences =
                   IF Contains(prefs.disliked_recipes, recipe) THEN prefs
                   ELSE [prefs EXCEPT !.disliked_recipes = Append(@, recipe)]]
        /\ page' = FeedbackPage("feedback", "")
        /\ calls' = calls + 1
        /\ UNCHANGED <<disk, fs, now, recorded, last>>

NextApp == Recommend \/ LovedClick \/ DislikeClick

SpecApp == InitApp /\ [][NextApp]_vars

----------------------------------------------------------------------------
(* apply_diversity_filter on its own: any ranked input, any cap *)

MaxInputLen == 5      \* rows of a ranked input
MaxSame == 4          \* the largest max_same_cuisine

\* a ranked input: row i is the one of rank i
RankedInputs ==
    UNION { { [i \in 1..n |-> [rank |-> i, cuisine |-> cuisines[i]]] :
              cuisines \in [1..n -> DefaultCuisines] } : n \in 0..MaxInputLen }

InitDiversity ==
    /\ session_state = <<>>
    /\ disk = <<>>
    /\ fs = "ok"
    /\ now = 0
    /\ calls = 0
    /\ recorded = <<>>
    /\ last = Idle
    /\ \E recommendations \in RankedInputs, msc \in 1..MaxSame :
           page = [outcome |-> "input", recommendations |-> recommendations,
                   max_same_cuisine |-> msc, result |-> <<>>]

\* result = apply_diversity_filter(recommendations, max_same_cuisine)
ApplyDiversity ==
    /\ page.outcome = "input"
    /\ page' = [page EXCEPT
                   !.outcome = "returned",
                   !.result = ApplyDiversityFilter(page.recommendations,
                                                   page.max_same_cuisine)]
    /\ UNCHANGED <<session_state, disk, fs, now, calls, recorded, last>>

SpecDiversity == InitDiversity /\ [][ApplyDiversity]_vars

----------------------------------------------------------------------------
(* extract_mood_tags on its own: texts of a few words, any polarity *)

MaxWords == 6         \* words of a mood text

\* the words the texts are made of
Vocabulary ==
    << <<"S", "t", "r", "e", "s", "s", "e", "d">>,
       <<"H", "a", "p", "p", "y">>,
       <<"b", "r", "e", "a", "k", "f", "a", "s", "t">>,
       <<"S", "A", "D">>,
       <<"r", "e", "l", "a", "x", "e", "d">>,
       <<"f", "r", "i", "e", "n", "d", "s">>,
       <<"c", "r", "a", "v", "i", "n", "g">>,
       <<"f", "i", "n", "e">> >>

RECURSIVE Join(_)
Join(words) ==
    IF words = <<>> THEN <<>>
    ELSE IF Len(words) = 1 THEN words[1]
    ELSE words[1] \o <<" ">> \o Join(Tail(words))

\* the words chosen, in the order of the vocabulary and in the reverse order
Ascending(chosen) ==
    [n \in 1..Cardinality(chosen) |->
        Vocabulary[CHOOSE i \in chosen : Cardinality({ j \in chosen : j <= i }) = n]]

Descending(chosen) ==
    [n \in 1..Cardinality(chosen) |->
        Vocabulary[CHOOSE i \in chosen : Cardinality({ j \in chosen : j >= i }) = n]]

MoodTexts ==
    UNION { { Join(Ascending(chosen)), Join(Descending(chosen)) } :
            chosen \in { c \in SUBSET (1..Len(Vocabulary)) : Cardinality(c) <= MaxWords } }

\* blob.sentiment.polarity, in hundredths: the thresholds and their neighbours
Polarities == { -100, -41, -40, -21, -20, 0, 20, 21, 40, 41 }

InitMood ==
    /\ session_state = <<>>
    /\ disk = <<>>
    /\ fs = "ok"
    /\ now = 0
    /\ calls = 0
    /\ recorded = <<>>
    /\ last = Idle
    /\ \E mood_text \in MoodTexts, polarity \in Polarities :
           page = [outcome |-> "input", mood_text |-> mood_text,
                   polarity |-> polarity, tags |-> <<>>, sentiment |-> 0]

\* mood_tags, sentiment = extract_mood_tags(mood_text)
ExtractTags ==
    /\ page.outcome = "input"
    /\ LET result == ExtractMoodTags(page.mood_text, page.polarity)
       IN  page' = [page EXCEPT !.outcome = "returned",
                                !.tags = result.tags,
                                !.sentiment = result.sentiment]
    /\ UNCHANGED <<session_state, disk, fs, now, calls, recorded, last>>

SpecMood == InitMood /\ [][ExtractTags]_vars

----------------------------------------------------------------------------
(* Properties *)

Prefs == session_state.user_preferences

Count(list, x) == Cardinality({ i \in 1..Len(list) : list[i] = x })

\* the step is an add_feedback call that returned
FeedbackStep == calls' = calls + 1

InRange(v) == -100 <= v /\ v <= 100

\* C1: after any sequence of add_feedback calls on a default profile, no
\* recipe title is in both liked_recipes and disliked_recipes.
C1_MutuallyExclusive ==
    HasProfile =>
        \A i \in 1..Len(Prefs.liked_recipes) :
            ~Contains(Prefs.disliked_recipes, Prefs.liked_recipes[i])

\* a disliked title that an earlier call had put in the liked list
C1_Witness ==
    /\ HasProfile
    /\ last.op = "add_feedback" /\ last.rating <= 2
    /\ Contains(Prefs.disliked_recipes, last.recipe.title)
    /\ ~Contains(Prefs.liked_recipes, last.recipe.title)
    /\ \E i \in 1..(Len(recorded) - 1) :
           recorded[i].recipe_title = last.recipe.title /\ recorded[i].rating >= 4

\* C2 as stated: after any add_feedback call every value in
\* cuisine_preferences lies in [-1.0, 1.0], whatever the profile held when
\* it was loaded.
C2_BoundedAfterAnyFeedback ==
    (HasProfile /\ last.op = "add_feedback" /\ last.outcome # "raised") =>
        \A c \in DOMAIN Prefs.cuisine_preferences :
            InRange(Prefs.cuisine_preferences[c])

\* C2 as amended: an add_feedback call keeps in [-1.0, 1.0] every cuisine
\* value that was in [-1.0, 1.0] before the call, and adds no cuisine.
C2_RangePreserved ==
    [][ FeedbackStep =>
          /\ DOMAIN Prefs.cuisine_preferences' = DOMAIN Prefs.cuisine_preferences
          /\ \A c \in DOMAIN Prefs.cuisine_preferences :
                InRange(Prefs.cuisine_preferences[c])
                    => InRange(Prefs.cuisine_preferences'[c]) ]_vars

\* positive feedback for a cuisine whose loaded value was already 1.0
C2_Witness ==
    /\ HasProfile
    /\ last.op = "add_feedback" /\ last.rating >= 4
    /\ last.recipe.cuisine = "Desi"
    /\ Prefs.cuisine_preferences["Desi"] = 100
    /\ Len(recorded) > WarmupRatings

\* C3: feedback_history never holds more than 50 entries and always equals
\* the most recent min(n, 50) feedback events in the order they were recorded.
C3_HistoryIsMostRecent ==
    HasProfile =>
        /\ Len(Prefs.feedback_history) <= 50
        /\ Len(Prefs.feedback_history) = Min(Len(recorded), 50)
        /\ \A i \in 1..Len(Prefs.feedback_history) :
              Prefs.feedback_history[i] =
                  recorded[Len(recorded) - Len(Prefs.feedback_history) + i]

\* 51 events recorded: the history holds events 2..51
C3_Witness ==
    /\ HasProfile
    /\ Len(recorded) = 51
    /\ Len(Prefs.feedback_history) = 50
    /\ Prefs.feedback_history[1] = recorded[2]
    /\ Prefs.feedback_history[1] # recorded[1]
    /\ Prefs.feedback_history[50] = recorded[51]

\* C4: liked_recipes and disliked_recipes never contain a title twice, and
\* after positive feedback the title is in liked_recipes exactly once.
C4_LikedOnce ==
    HasProfile =>
        /\ NoDuplicates(Prefs.liked_recipes)
        /\ NoDuplicates(Prefs.disliked_recipes)
        /\ (last.op = "add_feedback" /\ last.rating >= 4)
              => Count(Prefs.liked_recipes, last.recipe.title) = 1

\* the same title rated positive twice in a row
C4_Witness ==
    /\ HasProfile
    /\ last.op = "add_feedback" /\ last.rating >= 4
    /\ Len(recorded) >= 2
    /\ recorded[Len(recorded) - 1].recipe_title = last.recipe.title
    /\ recorded[Len(recorded) - 1].rating >= 4
    /\ Count(Prefs.liked_recipes, last.recipe.title) = 1

\* the affinity of cuisine c, 0 when c has no entry
Affinity(cuisine_preferences, c) ==
    IF c \in DOMAIN cuisine_preferences THEN cuisine_preferences[c] ELSE 0

\* C5 as stated: for every cuisine a recipe can carry, one with no entry
\* included, rating >= 4 sets the affinity to min(1.0, old + 0.1) and
\* rating <= 2 sets it to max(-0.5, old - 0.05).
C5_EveryCuisineAdjusted ==
    [][ FeedbackStep =>
          LET c   == last'.recipe.cuisine
              old == Affinity(Prefs.cuisine_preferences, c)
          IN  /\ last'.rating >= 4 =>
                    /\ c \in DOMAIN Prefs.cuisine_preferences'
                    /\ Prefs.cuisine_preferences'[c] = Min(100, old + 10)
              /\ last'.rating <= 2 =>
                    /\ c \in DOMAIN Prefs.cuisine_preferences'
                    /\ Prefs.cuisine_preferences'[c] = Max(-50, old - 5) ]_vars

\* C5 as amended: for a cuisine that has an entry in cuisine_preferences,
\* rating >= 4 sets it to min(1.0, old + 0.1) and rating <= 2 sets it to
\* max(-0.5, old - 0.05); for a cuisine with no entry the call adds no entry
\* and changes no affinity.
C5_KnownCuisineAdjusted ==
    [][ FeedbackStep =>
          LET c   == last'.recipe.cuisine
              old == Prefs.cuisine_preferences
              new == Prefs.cuisine_preferences'
          IN  IF c \in DOMAIN old
              THEN /\ DOMAIN new = DOMAIN old
                   /\ last'.rating >= 4 => new[c] = Min(100, old[c] + 10)
                   /\ last'.rating <= 2 => new[c] = Max(-50, old[c] - 5)
              ELSE new = old ]_vars

\* negative feedback that met the lower clamp
C5_Witness ==
    /\ HasProfile
    /\ last.op = "add_feedback" /\ last.rating <= 2
    /\ last.recipe.cuisine = "Desi"
    /\ Prefs.cuisine_preferences["Desi"] = -50
    /\ Len(recorded) > WarmupRatings

\* C6: an add_feedback call with rating 3 leaves liked_recipes,
\* disliked_recipes, cuisine_preferences and mood_patterns unchanged; it
\* appends one record to feedback_history (subject to the cap) and sets
\* last_updated.
C6_NeutralChangesHistoryOnly ==
    [][ (FeedbackStep /\ last'.rating = 3) =>
          /\ Prefs.liked_recipes' = Prefs.liked_recipes
          /\ Prefs.disliked_recipes' = Prefs.disliked_recipes
          /\ Prefs.cuisine_preferences' = Prefs.cuisine_preferences
          /\ Prefs.mood_patterns' = Prefs.mood_patterns
          /\ Prefs.creation_date' = Prefs.creation_date
          /\ Prefs.last_updated' = now
          /\ LET appended == Append(Prefs.feedback_history, recorded'[Len(recorded')])
             IN  Prefs.feedback_history' =
                     IF Len(appended) > 50
                     THEN SubSeq(appended, Len(appended) - 49, Len(appended))
                     ELSE appended ]_vars

\* a neutral rating given to a profile that has likes, an affinity and a
\* mood pattern to keep
C6_Witness ==
    /\ HasProfile
    /\ last.op = "add_feedback" /\ last.rating = 3
    /\ Prefs.liked_recipes # <<>>
    /\ Prefs.cuisine_preferences["Desi"] > 0
    /\ DOMAIN Prefs.mood_patterns # {}
    /\ Prefs.feedback_history[Len(Prefs.feedback_history)].rating = 3

\* what the claim expects of mood_patterns after positive feedback: the title
\* appended to the list of each tag of moodTags that lacks it
TagsOf(mood_tags) == { mood_tags[i] : i \in 1..Len(mood_tags) }

ExpectedPatterns(mood_patterns, mood_tags, title) ==
    [tag \in (DOMAIN mood_patterns) \cup TagsOf(mood_tags) |->
        LET known == IF tag \in DOMAIN mood_patterns THEN mood_patterns[tag] ELSE <<>>
        IN  IF tag \in TagsOf(mood_tags) /\ ~Contains(known, title)
            THEN Append(known, title)
            ELSE known]

\* C7: mood_patterns changes only in add_feedback calls with rating >= 4,
\* and then only by appending the rated title to the list of each tag in
\* moodTags where it is not yet present; calls with rating <= 2 leave it
\* unchanged, and no tag's list ever contains a title twice.
C7_MoodPatterns ==
    /\ [](HasProfile =>
            \A tag \in DOMAIN Prefs.mood_patterns :
                NoDuplicates(Prefs.mood_patterns[tag]))
    /\ [][ /\ Prefs.mood_patterns' # Prefs.mood_patterns
                 => (FeedbackStep /\ last'.rating >= 4)
           /\ (FeedbackStep /\ last'.rating >= 4)
                 => Prefs.mood_patterns' =
                        ExpectedPatterns(Prefs.mood_patterns, last'.tags,
                                         last'.recipe.title)
           /\ (FeedbackStep /\ last'.rating <= 2)
                 => Prefs.mood_patterns' = Prefs.mood_patterns ]_vars

\* positive feedback with a tag given twice, for a second title under a
\* tag that already has one
C7_Witness ==
    /\ HasProfile
    /\ last.op = "add_feedback" /\ last.rating >= 4
    /\ last.tags = <<"stress", "comfort", "stress">>
    /\ DOMAIN Prefs.mood_patterns = {"comfort", "stress"}
    /\ Prefs.mood_patterns["comfort"] = <<"Chicken Karahi", last.recipe.title>>
    /\ Prefs.mood_patterns["stress"] = <<last.recipe.title>>

\* the sum the claim describes, before it is clamped (in thousandths)
ClaimedBoost(prefs, recipe, t) ==
    LET h == prefs.feedback_history
    IN    3 * Affinity(prefs.cuisine_preferences, recipe.cuisine)
        + (IF \E i \in 1..Len(prefs.liked_recipes) :
                 prefs.liked_recipes[i] = recipe.title THEN 500 ELSE 0)
        - (IF \E i \in 1..Len(prefs.disliked_recipes) :
                 prefs.disliked_recipes[i] = recipe.title THEN 1000 ELSE 0)
        + 100 * Cardinality({ i \in 1..Len(h) :
                                /\ t - h[i].timestamp < 30
                                /\ h[i].rating >= 4
                                /\ h[i].cuisine = recipe.cuisine
                                /\ h[i].meal_time = recipe.meal_time })

\* C8: for every profile reachable by add_feedback calls and every recipe,
\* get_personalized_boost returns a value in [-1, 1], namely the claimed sum
\* (affinity * 0.3, + 0.5 if liked, - 1.0 if disliked, + 0.1 per recent
\* positive entry of the same cuisine and meal time) clamped, hence at least
\* 0.5 for a liked title whose cuisine has no negative affinity, and leaves
\* the session profile and the profile file unchanged.
C8_BoostBoundedAndPure ==
    /\ [](last.op = "get_personalized_boost" =>
            /\ -1000 <= last.value /\ last.value <= 1000
            /\ LET sum == ClaimedBoost(Prefs, last.recipe, now)
               IN  last.value = IF sum > 1000 THEN 1000
                                ELSE IF sum < -1000 THEN -1000 ELSE sum
            /\ ( /\ Contains(Prefs.liked_recipes, last.recipe.title)
                  /\ ~Contains(Prefs.disliked_recipes, last.recipe.title)
                  /\ Affinity(Prefs.cuisine_preferences, last.recipe.cuisine) >= 0 )
                  => last.value >= 500)
    /\ [][ last'.op = "get_personalized_boost" =>
              /\ session_state' = session_state
              /\ disk' = disk ]_vars

\* a boost the clamp cut: a liked Desi recipe with affinity 1.0 and more
\* than two recent likes of the same cuisine and meal time
C8_Witness ==
    /\ HasProfile
    /\ last.op = "get_personalized_boost"
    /\ last.value = 1000
    /\ Contains(Prefs.liked_recipes, last.recipe.title)
    /\ Prefs.cuisine_preferences[last.recipe.cuisine] = 100
    /\ Len(RecentFeedback(session_state, now, RecentDays)) > 2

\* C9: after every add_feedback call that returns with a storage write that
\* did not fail, the profile file holds the session profile, the feedback
\* record and last_updated of that call included, whatever the rating.
C9_SavedAfterFeedback ==
    (last.op = "add_feedback" /\ last.outcome = "saved") =>
        /\ ProfilePath \in DOMAIN disk
        /\ disk[ProfilePath].json
        /\ disk[ProfilePath].doc = Prefs
        /\ disk[ProfilePath].doc.last_updated = now
        /\ Len(disk[ProfilePath].doc.feedback_history) >= 1
        /\ LET h == disk[ProfilePath].doc.feedback_history
           IN  /\ h[Len(h)].recipe_title = last.recipe.title
               /\ h[Len(h)].rating = last.rating
               /\ h[Len(h)].timestamp = now

\* a neutral rating, given on a later day, that reached the file
C9_Witness ==
    /\ last.op = "add_feedback" /\ last.rating = 3 /\ last.outcome = "saved"
    /\ now > 0
    /\ ProfilePath \in DOMAIN disk
    /\ disk[ProfilePath].json
    /\ disk[ProfilePath].doc.last_updated = now

IsDefault(prefs) ==
    /\ prefs.liked_recipes = <<>>
    /\ prefs.disliked_recipes = <<>>
    /\ DOMAIN prefs.cuisine_preferences = {"Desi", "Arabic", "Western"}
    /\ \A c \in DOMAIN prefs.cuisine_preferences : prefs.cuisine_preferences[c] = 0
    /\ DOMAIN prefs.mood_patterns = {}
    /\ prefs.feedback_history = <<>>

C11_LoadFallsBackToDefaults ==
    [][(/\ ~HasProfile
        /\ last'.op = "load_profile"
        /\ last'.outcome \in {"no_file", "load_failed"})
       => (/\ "user_preferences" \in DOMAIN session_state'
           /\ IsDefault(session_state'.user_preferences))]_vars

\* the score the ranking is claimed to follow: the similarity, plus the
\* stored affinity of the cuisine when learning is enabled
ClaimedFinalScore(row) ==
    row.similarity
    + (IF page.enable_learning /\ row.cuisine \in DOMAIN Prefs.cuisine_preferences
       THEN Prefs.cuisine_preferences[row.cuisine] ELSE 0)

\* C12: the page ranks the candidates by similarity plus the stored
\* cuisine affinity, in descending order, when learning is enabled, and by
\* similarity alone when it is disabled; so with learning enabled, of two
\* equally similar candidates the one of the cuisine with the higher
\* affinity comes first.
C12_RankedByFinalScore ==
    page.outcome = "shown" =>
        \A i, j \in 1..Len(page.sorted) :
            i < j => ClaimedFinalScore(page.sorted[i]) >= ClaimedFinalScore(page.sorted[j])

\* the score the page sorted a row by
SortScore(row) ==
    IF "final_score" \in DOMAIN row THEN row.final_score ELSE row.similarity

SameCuisine(rows, cuisine) == { i \in 1..Len(rows) : rows[i].cuisine = cuisine }

\* C13: the recommendation list of the page (max same cuisine 2) holds at
\* most 3 recipes, at most 2 of them of one cuisine, in non-increasing
\* order of the score the page sorted by.
C13_ListBounded ==
    page.outcome = "shown" =>
        /\ Len(page.shown) <= 3
        /\ \A i \in 1..Len(page.shown) :
               Cardinality(SameCuisine(page.shown, page.shown[i].cuisine)) <= 2
        /\ \A i, j \in 1..Len(page.shown) :
               i < j => SortScore(page.shown[i]) >= SortScore(page.shown[j])
        /\ session_state.last_recommendations = Titles(page.shown)

\* three recipes shown, the third after a better-scored one of a cuisine
\* that already had two was passed over
C13_Witness ==
    /\ page.outcome = "shown"
    /\ Len(page.shown) = 3
    /\ \E k \in 1..Len(page.sorted) :
           /\ SortScore(page.sorted[k]) > SortScore(page.shown[3])
           /\ \A i \in 1..3 : page.shown[i] # page.sorted[k]
           /\ Cardinality(SameCuisine(page.shown, page.sorted[k].cuisine)) = 2

\* the walk the claim describes: in order, a row admitted when fewer than
\* cap admitted rows share its cuisine, until 3 are admitted
RECURSIVE AdmittedUpTo(_, _, _)
AdmittedUpTo(rows, cap, k) ==
    IF k = 0 THEN {}
    ELSE LET before == AdmittedUpTo(rows, cap, k - 1)
         IN  IF /\ Cardinality(before) < 3
                /\ Cardinality({ i \in before : rows[i].cuisine = rows[k].cuisine }) < cap
             THEN before \cup {k}
             ELSE before

GreedySelection(rows, cap) ==
    LET admitted == AdmittedUpTo(rows, cap, Len(rows))
    IN  [n \in 1..Cardinality(admitted) |->
            rows[CHOOSE i \in admitted :
                     Cardinality({ j \in admitted : j <= i }) = n]]

\* C14 as stated: the recommendation list is the greedy walk, with cap 2
\* and limit 3, of the entire score-sorted candidate list; so whenever the
\* candidates hold 3 recipes admissible under the cap, 3 are returned.
C14_WalksEntireList ==
    page.outcome = "shown" =>
        page.shown = GreedySelection(page.sorted, 2)

\* C14 as amended: the recommendation list is the greedy walk, with cap 2
\* and limit 3, of the 6 best-scored candidates; 3 are returned whenever
\* those 6 hold 3 recipes admissible under the cap.
C14_WalksSixBest ==
    page.outcome = "shown" =>
        /\ page.shown = GreedySelection(FirstN(page.sorted, 6), 2)
        /\ Len(GreedySelection(FirstN(page.sorted, 6), 2)) >= 3 => Len(page.shown) = 3

\* more than 6 candidates, the 6 best of one cuisine: two are shown although
\* the walk of the entire list admits a third
C14_Witness ==
    /\ page.outcome = "shown"
    /\ Len(page.sorted) > 6
    /\ Len(page.shown) = 2
    /\ Len(GreedySelection(page.sorted, 2)) = 3

\* C15: a press of Recommend never raises when no recipe passes the
\* filters or when the mood text is empty; with enhanced embeddings on
\* (IndexError would be line 131) or off (ValueError would be line 140) it
\* ends in a warning or a 'no results' message.
C15_RecommendNeverRaises ==
    ~(page.outcome = "raised" /\ page.error \in {"IndexError", "ValueError"})

\* C19: in the app, after any sequence of Loved and Didn't like clicks on
\* recommended recipes, no title is in both liked_recipes and
\* disliked_recipes of the session profile.
C19_AppListsExclusive ==
    \A i \in 1..Len(Prefs.liked_recipes) :
        ~Contains(Prefs.disliked_recipes, Prefs.liked_recipes[i])

\* C20: with learning enabled, no title that is in disliked_recipes when
\* Recommend is pressed appears in the list that press shows (a page is
\* "shown" until the next click, so the profile is the one of the press).
C20_DislikedNotRecommended ==
    (page.outcome = "shown" /\ page.enable_learning) =>
        \A i \in 1..Len(page.shown) :
            ~Contains(Prefs.disliked_recipes, page.shown[i].title)

CapRespected(rows, cap) ==
    \A i \in 1..Len(rows) : Cardinality(SameCuisine(rows, rows[i].cuisine)) <= cap

\* C16 as stated: for every ranked input and every max_same_cuisine >= 1
\* apply_diversity_filter returns the greedy selection (in order, a row
\* admitted iff fewer than max_same_cuisine admitted rows share its
\* cuisine, until 3 are admitted); the result has at most max_same_cuisine
\* rows of a cuisine and at most 3 rows, and an input of at most
\* max_same_cuisine rows is returned unchanged.
C16_GreedySelection ==
    page.outcome = "returned" =>
        /\ page.result = GreedySelection(page.recommendations, page.max_same_cuisine)
        /\ CapRespected(page.result, page.max_same_cuisine)
        /\ Len(page.result) <= 3
        /\ Len(page.recommendations) <= page.max_same_cuisine =>
               page.result = page.recommendations

\* C16 as amended: an input of at most max_same_cuisine rows is returned
\* unchanged, whatever its length; a longer input gives the greedy
\* selection, of at most 3 rows; either way no cuisine has more than
\* max_same_cuisine rows in the result.
C16_GreedyUnlessShort ==
    page.outcome = "returned" =>
        /\ Len(page.recommendations) <= page.max_same_cuisine =>
               page.result = page.recommendations
        /\ Len(page.recommendations) > page.max_same_cuisine =>
               /\ page.result = GreedySelection(page.recommendations,
                                                page.max_same_cuisine)
               /\ Len(page.result) <= 3
        /\ CapRespected(page.result, page.max_same_cuisine)

\* an input of 4 rows returned whole under max_same_cuisine 4
C16_Witness ==
    /\ page.outcome = "returned"
    /\ page.max_same_cuisine = 4
    /\ Len(page.recommendations) = 4
    /\ Len(page.result) = 4

CategoryTags == { Categories[i] : i \in 1..Len(Categories) }

CategoryIndex(tag) == CHOOSE i \in 1..Len(Categories) : Categories[i] = tag

\* the sentiment tag of the claim: the set is empty when there is none
ClaimedSentimentTag(polarity) ==
    IF polarity < -40 THEN {"negative"}
    ELSE IF polarity > 40 THEN {"positive"}
    ELSE IF -20 <= polarity /\ polarity <= 20 THEN {"neutral"}
    ELSE {}

\* C17: extract_mood_tags returns at most 5 tags, all distinct: emotion
\* categories in the order of the table, then at most one sentiment tag,
\* which is negative below -0.4, positive above 0.4, neutral from -0.2 to
\* 0.2 and absent otherwise (it is there whenever fewer than 5 categories
\* leave it room); the empty text returns ([], 0.0).
C17_TagsBoundedOrdered ==
    page.outcome = "returned" =>
        LET tags == page.tags
            cats == { i \in 1..Len(tags) : tags[i] \in CategoryTags }
        IN  /\ Len(tags) <= 5
            /\ NoDuplicates(tags)
            /\ \A i, j \in cats : i < j => CategoryIndex(tags[i]) < CategoryIndex(tags[j])
            /\ \A i \in 1..Len(tags) :
                   i \notin cats => /\ i = Len(tags)
                                    /\ \A j \in 1..(i - 1) : j \in cats
                                    /\ tags[i] \in ClaimedSentimentTag(page.polarity)
            /\ (page.mood_text # <<>> /\ Cardinality(cats) < 5
                   /\ ClaimedSentimentTag(page.polarity) # {})
                  => (Len(tags) > 0 /\ tags[Len(tags)] \in ClaimedSentimentTag(page.polarity))
            /\ page.mood_text # <<>> => page.sentiment = page.polarity
            /\ page.mood_text = <<>> => (tags = <<>> /\ page.sentiment = 0)

\* a text with six categories and a positive polarity: five category tags
\* come back, in the order of the table and not of the text
C17_Witness ==
    /\ page.outcome = "returned"
    /\ page.polarity > 40
    /\ Len(page.tags) = 5
    /\ page.tags[1] = "stress" /\ page.tags[5] = "social"
    /\ Len(DetectedCategories(page.mood_text)) = 6
    /\ SubSeq(page.mood_text, 1, 7) = <<"c", "r", "a", "v", "i", "n", "g">>

\* the entries the claim excludes
BadTimestamp(feedback) ==
    \/ "timestamp" \notin DOMAIN feedback
    \/ feedback.timestamp \in {NullTimestamp, MalformedTimestamp}

\* C18: the recency filter never raises: whatever feedback_history holds,
\* entries with a missing, null or malformed timestamp included,
\* get_personalized_boost and get_profile_summary complete normally, and
\* those entries are not counted as recent.
C18_RecencyNeverRaises ==
    /\ last.op \in {"get_personalized_boost", "get_profile_summary"} =>
           last.outcome # "raised"
    /\ (last.op = "get_profile_summary" /\ last.outcome = "returned") =>
           last.value = Cardinality({ i \in 1..Len(Prefs.feedback_history) :
                            /\ ~BadTimestamp(Prefs.feedback_history[i])
                            /\ Prefs.feedback_history[i].timestamp > now - 7 })

\* the titles a profile lists
ListedTitles(prefs) ==
    { prefs.liked_recipes[i] : i \in 1..Len(prefs.liked_recipes) }
        \cup { prefs.disliked_recipes[i] : i \in 1..Len(prefs.disliked_recipes) }

\* C21: an add_feedback call for title T of cuisine c leaves the other
\* recipes and cuisines alone: every title other than T is in
\* liked_recipes, and in disliked_recipes, after the call iff it was before;
\* every cuisine other than c keeps its affinity; and every record of
\* feedback_history that is not evicted is kept as it was, in its order.
C21_FeedbackFrame ==
    [][FeedbackStep =>
        LET T       == last'.recipe.title
            c       == last'.recipe.cuisine
            old     == session_state.user_preferences
            new     == session_state'.user_preferences
            evicted == Max(0, Len(old.feedback_history) + 1 - 50)
        IN  /\ \A title \in (ListedTitles(old) \cup ListedTitles(new)) \ {T} :
                   /\ Contains(new.liked_recipes, title)
                          <=> Contains(old.liked_recipes, title)
                   /\ Contains(new.disliked_recipes, title)
                          <=> Contains(old.disliked_recipes, title)
            /\ DOMAIN new.cuisine_preferences = DOMAIN old.cuisine_preferences
            /\ \A cuisine \in (DOMAIN old.cuisine_preferences) \ {c} :
                   new.cuisine_preferences[cuisine] = old.cuisine_preferences[cuisine]
            /\ Len(new.feedback_history) = Len(old.feedback_history) + 1 - evicted
            /\ \A i \in (evicted + 1)..Len(old.feedback_history) :
                   new.feedback_history[i - evicted] = old.feedback_history[i]]_vars

\* a dislike of Fruit Salad on a full history, after a like of Chicken
\* Karahi: Karahi stays liked, Desi keeps its 0.1, the oldest record is
\* evicted
C21_Witness ==
    /\ last.op = "add_feedback" /\ last.recipe = Salad /\ last.rating = 2
    /\ Contains(Prefs.liked_recipes, "Chicken Karahi")
    /\ Contains(Prefs.disliked_recipes, "Fruit Salad")
    /\ Prefs.cuisine_preferences["Desi"] = 10
    /\ Len(recorded) = 51
    /\ Len(Prefs.feedback_history) = 50

====
